---- MODULE Spec2Model ----
(***************************************************************************)
(* The backend-link dispatcher of CSV-Plotter (app-core, backend_link.rs): *)
(* frontend call sites build BackendLink / LinkReceiver pairs, enqueue the *)
(* links on the request queue, and one backend consumer runs them against  *)
(* the backend state.  A pair shares the atomic flag is_cancelled, which    *)
(* the LinkReceiver's Drop sets.                                            *)
(*                                                                         *)
(* Every request's action is the counter action of the spec's scenarios:   *)
(* it increments the backend state and returns the new value.              *)
(***************************************************************************)
EXTENDS Integers, Sequences, FiniteSets, TLC

\* Number of BackendLink / LinkReceiver pairs constructed in a run.
MaxReq == 2

Ids == 1..MaxReq

VARIABLES
    nreq,       \* pairs constructed so far; the next pair gets id nreq + 1
    flag,       \* flag[i]: the shared AtomicBool is_cancelled of pair i
    rxs,        \* LinkReceiver i: "none", "live", "flagged" (drop stored the
                \*   flag, field rx not yet released), "gone"
    txs,        \* BackendLink i: "none", "built", "queued", "running", "dropped"
    buf,        \* buf[i]: values sent on the result channel and not yet taken
    queue,      \* the request queue (ids of the boxed links), head first
    consumer,   \* TRUE while the backend consumer holds the queue's receive end
    pc,         \* the consumer's position: "idle", "check1", "action",
                \*   "check2", "send", "end"
    cur,        \* the request the consumer is running, 0 if none
    result,     \* the local `result` of run_on_backend, 0 if none
    state,      \* the backend state: the counter the actions increment
    param,      \* the LinkReceiver the UIParameter holds, 0 if none
    uiPc,       \* the rewiring call site: "idle", or "send" between set_recv
                \*   and the enqueue
    waiting,    \* the LinkReceiver a caller is blocked on in recv_timeout, 0 if none
    panicked,   \* TRUE once an enqueue hit BACKEND_HUNG_UP_MSG
    got,        \* got[i]: the values LinkReceiver i returned as Ok
    ld,         \* the latest call of request_load_file: its request (0 if
                \*   none), its position "idle" (returned), "wait", "drop",
                \*   and how its wait ended
    \* ---- observation of the run (history) ----
    last,       \* the step just taken: <<operation, id, outcome>>
    prev,       \* prev[i]: the receiver that set_recv replaced by i, 0 if none
    acted,      \* acted[i]: how often (self.action)(backend) ran for i
    sends,      \* sends[i]: how often backchannel.send was called for i
    sendOk,     \* sendOk[i]: how many of these returned Ok
    read1,      \* read1[i]: what the first load of is_cancelled read
    read2,      \* read2[i]: what the second load read ("none" if not reached)
    enqOrder,   \* ids in the order they were put on the queue
    execOrder   \* ids in the order run_on_backend was called on them

vars == <<nreq, flag, rxs, txs, buf, queue, consumer, pc, cur, result, state,
          param, uiPc, waiting, panicked, got, ld, last, prev, acted, sends,
          sendOk, read1, read2, enqOrder, execOrder>>

frontVars == <<nreq, rxs, param, uiPc, waiting, panicked, got, ld, prev>>
backVars == <<pc, cur, result, state, acted, sends, sendOk, read1, read2, execOrder>>

Init ==
    /\ nreq = 0
    /\ flag = [i \in Ids |-> FALSE]
    /\ rxs = [i \in Ids |-> "none"]
    /\ txs = [i \in Ids |-> "none"]
    /\ buf = [i \in Ids |-> <<>>]
    /\ queue = <<>>
    /\ consumer = TRUE
    /\ pc = "idle"
    /\ cur = 0
    /\ result = 0
    /\ state = 0
    /\ param = 0
    /\ uiPc = "idle"
    /\ waiting = 0
    /\ panicked = FALSE
    /\ got = [i \in Ids |-> <<>>]
    /\ ld = [id |-> 0, pc |-> "idle", out |-> "none"]
    /\ last = <<"init", 0, "none">>
    /\ prev = [i \in Ids |-> 0]
    /\ acted = [i \in Ids |-> 0]
    /\ sends = [i \in Ids |-> 0]
    /\ sendOk = [i \in Ids |-> 0]
    /\ read1 = [i \in Ids |-> "none"]
    /\ read2 = [i \in Ids |-> "none"]
    /\ enqOrder = <<>>
    /\ execOrder = <<>>

----------------------------------------------------------------------------
(* Helpers *)

\* The send end of result channel i exists as long as its BackendLink does.
TxAlive(i) == txs[i] \in {"built", "queued", "running"}

\* Mutant of ChannelTryRecv: the two empty outcomes are swapped.
ChannelTryRecvSwapped(b, txAlive) ==
    IF b # <<>> THEN "Ready"
    ELSE IF txAlive THEN "Disconnected"
    ELSE "NotReady"

\* Mutant of ChannelTryRecv: a closed send end is reported before a buffered
\* value is looked for.
ChannelTryRecvClosedFirst(b, txAlive) ==
    IF ~txAlive THEN "Disconnected"
    ELSE IF b # <<>> THEN "Ready"
    ELSE "NotReady"

\* std::sync::mpsc::Receiver::try_recv as LinkReceiver::try_recv forwards it.
ChannelTryRecv(b, txAlive) ==
    IF b # <<>> THEN "Ready"
    ELSE IF txAlive THEN "NotReady"
    ELSE "Disconnected"

\* std::sync::mpsc::Receiver::recv_timeout at the moment it returns.
ChannelRecvTimeout(b, txAlive) ==
    IF b # <<>> THEN "Ready"
    ELSE IF txAlive THEN "TimedOut"
    ELSE "Disconnected"

\* Mutant of QueueSend: the link is put at the front of the queue.
QueueSendFront(q, i) == <<i>> \o q

\* request_tx.send(Box::new(linker)): the link goes to the back of the queue.
QueueSend(q, i) == Append(q, i)

\* The load of is_cancelled in run_on_backend.
IsCancelled(i) == flag[i]

\* Mutant of DropStore: the pairs share one flag.
DropStoreShared(f, i) == [j \in Ids |-> TRUE]

\* Mutant of DropStore: drop does not store the flag.
DropStoreForgets(f, i) == f

\* The store in Drop for LinkReceiver.
DropStore(f, i) == [f EXCEPT ![i] = TRUE]

\* Mutant of NewFlag: the pair starts cancelled.
NewFlagSet == TRUE

\* The AtomicBool of a fresh pair.
NewFlag == FALSE

----------------------------------------------------------------------------
(* The frontend *)

\* BackendLink::new: a fresh channel, a fresh flag, the pair handed to the
\* caller (request_load_file keeps the receiver in a local).
New(i) ==
    /\ ~panicked
    /\ uiPc = "idle"
    /\ i = nreq + 1
    /\ i \in Ids
    /\ nreq' = i
    /\ flag' = [flag EXCEPT ![i] = NewFlag]
    /\ rxs' = [rxs EXCEPT ![i] = "live"]
    /\ txs' = [txs EXCEPT ![i] = "built"]
    /\ buf' = [buf EXCEPT ![i] = <<>>]
    /\ last' = <<"new", i, "none">>
    /\ UNCHANGED <<queue, consumer, param, uiPc, waiting, panicked, got, prev, enqOrder>>
    /\ UNCHANGED <<backVars, ld>>

\* The set_recv of a rewiring call has returned: the replaced receiver is gone.
SetRecvReturned ==
    IF param = 0 THEN TRUE
    ELSE IF prev[param] = 0 THEN TRUE
    ELSE rxs[prev[param]] = "gone"

\* request_tx.send(..).expect(BACKEND_HUNG_UP_MSG) with a live consumer.
Enqueue(i) ==
    /\ ~panicked
    /\ txs[i] = "built"
    /\ uiPc = "send" => (i = param /\ SetRecvReturned)
    /\ consumer
    /\ queue' = QueueSend(queue, i)
    /\ enqOrder' = Append(enqOrder, i)
    /\ txs' = [txs EXCEPT ![i] = "queued"]
    /\ uiPc' = "idle"
    /\ last' = <<"enqueue", i, "none">>
    /\ UNCHANGED <<nreq, flag, rxs, buf, consumer, param, waiting, panicked,
                   got, prev>>
    /\ UNCHANGED <<backVars, ld>>

\* Mutant of EnqueuePanic: the Err of send is dropped (.ok() for .expect()),
\* and the caller goes on.
EnqueueIgnoresError(i) ==
    /\ ~panicked
    /\ txs[i] = "built"
    /\ uiPc = "send" => (i = param /\ SetRecvReturned)
    /\ ~consumer
    /\ txs' = [txs EXCEPT ![i] = "dropped"]
    /\ uiPc' = "idle"
    /\ last' = <<"enqueue", i, "ignored">>
    /\ UNCHANGED <<nreq, flag, rxs, buf, queue, consumer, param, waiting, got,
                   prev, enqOrder, panicked>>
    /\ UNCHANGED <<backVars, ld>>

\* request_tx.send(..).expect(BACKEND_HUNG_UP_MSG) after the consumer went
\* away: send returns Err, expect panics, and the link dies with the error.
EnqueuePanic(i) ==
    /\ ~panicked
    /\ txs[i] = "built"
    /\ uiPc = "send" => (i = param /\ SetRecvReturned)
    /\ ~consumer
    /\ panicked' = TRUE
    /\ txs' = [txs EXCEPT ![i] = "dropped"]
    /\ uiPc' = "idle"
    /\ last' = <<"enqueue", i, "panic">>
    /\ UNCHANGED <<nreq, flag, rxs, buf, queue, consumer, param, waiting, got,
                   prev, enqOrder>>
    /\ UNCHANGED <<backVars, ld>>

\* request_load_file up to its wait (logic.rs 41-50): BackendLink::new, the
\* enqueue, and the call of rx.recv_timeout on the local receiver.
LoadFile(i) ==
    /\ ~panicked
    /\ uiPc = "idle"
    /\ ld.pc = "idle"
    /\ waiting = 0
    /\ i = nreq + 1
    /\ i \in Ids
    /\ consumer
    /\ nreq' = i
    /\ flag' = [flag EXCEPT ![i] = NewFlag]
    /\ rxs' = [rxs EXCEPT ![i] = "live"]
    /\ txs' = [txs EXCEPT ![i] = "queued"]
    /\ buf' = [buf EXCEPT ![i] = <<>>]
    /\ queue' = QueueSend(queue, i)
    /\ enqOrder' = Append(enqOrder, i)
    /\ waiting' = i
    /\ ld' = [id |-> i, pc |-> "wait", out |-> "none"]
    /\ last' = <<"load_file", i, "none">>
    /\ UNCHANGED <<consumer, param, uiPc, panicked, got, prev>>
    /\ UNCHANGED backVars

\* request_load_file when the consumer has gone (logic.rs 47-49): the
\* enqueue panics, and the unwinding drops the local receiver.
LoadFilePanic(i) ==
    /\ ~panicked
    /\ uiPc = "idle"
    /\ ld.pc = "idle"
    /\ i = nreq + 1
    /\ i \in Ids
    /\ ~consumer
    /\ nreq' = i
    /\ flag' = [flag EXCEPT ![i] = NewFlag]
    /\ rxs' = [rxs EXCEPT ![i] = "live"]
    /\ txs' = [txs EXCEPT ![i] = "dropped"]
    /\ buf' = [buf EXCEPT ![i] = <<>>]
    /\ panicked' = TRUE
    /\ ld' = [id |-> i, pc |-> "drop", out |-> "none"]
    /\ last' = <<"enqueue", i, "panic">>
    /\ UNCHANGED <<queue, consumer, param, uiPc, waiting, got, prev, enqOrder>>
    /\ UNCHANGED backVars

\* UIParameter::set_recv(rx): the parameter takes the new receiver; the one it
\* held is dropped, and Drop for LinkReceiver stores the flag first.
SetRecv(old, i) ==
    /\ param' = i
    /\ prev' = [prev EXCEPT ![i] = old]
    /\ IF old = 0
         THEN /\ flag' = [flag EXCEPT ![i] = NewFlag]
              /\ rxs' = [rxs EXCEPT ![i] = "live"]
         ELSE /\ flag' = DropStore([flag EXCEPT ![i] = NewFlag], old)
              /\ rxs' = [rxs EXCEPT ![i] = "live", ![old] = "flagged"]

\* request_parameter_update up to set_recv (and the same steps of
\* request_current_child_paths / query_current_path): construct the pair,
\* then parameter.set_recv(rx).
Rewire(i) ==
    /\ ~panicked
    /\ uiPc = "idle"
    /\ ld.pc = "idle"
    /\ i = nreq + 1
    /\ i \in Ids
    /\ waiting = 0 \/ waiting # param
    /\ nreq' = i
    /\ SetRecv(param, i)
    /\ txs' = [txs EXCEPT ![i] = "built"]
    /\ buf' = [buf EXCEPT ![i] = <<>>]
    /\ uiPc' = "send"
    /\ last' = <<"set_recv", i, "none">>
    /\ UNCHANGED <<queue, consumer, waiting, panicked, got, enqOrder>>
    /\ UNCHANGED <<backVars, ld>>

\* Mutant of DropFlag: the receive end is released before the flag store
\* (which has then not happened yet).
DropFlagReleasesFirst(i) ==
    /\ rxs[i] = "live"
    /\ i # waiting
    /\ i = param => panicked
    /\ i = ld.id => ld.pc = "drop"
    /\ ld' = IF i = ld.id THEN [ld EXCEPT !.pc = "idle"] ELSE ld
    /\ rxs' = [rxs EXCEPT ![i] = "gone"]
    /\ buf' = [buf EXCEPT ![i] = <<>>]
    /\ last' = <<"release", i, "none">>
    /\ UNCHANGED <<nreq, flag, txs, queue, consumer, param, uiPc, waiting,
                   panicked, got, prev, enqOrder>>
    /\ UNCHANGED backVars

\* Drop for LinkReceiver, first half: drop() stores true in is_cancelled.
\* A receiver held by the UIParameter is dropped by set_recv (or by the
\* unwinding of a panic); nobody drops a receiver a caller is blocked on.
DropFlag(i) ==
    /\ rxs[i] = "live"
    /\ i # waiting
    /\ i = param => panicked
    /\ i = ld.id => ld.pc = "drop"
    /\ ld' = IF i = ld.id THEN [ld EXCEPT !.pc = "idle"] ELSE ld
    /\ flag' = DropStore(flag, i)
    /\ rxs' = [rxs EXCEPT ![i] = "flagged"]
    /\ last' = <<"drop", i, "none">>
    /\ UNCHANGED <<nreq, txs, buf, queue, consumer, param, uiPc, waiting,
                   panicked, got, prev, enqOrder>>
    /\ UNCHANGED backVars

\* Drop for LinkReceiver, second half: after drop() the fields are released,
\* rx among them; the channel's receive end closes and its buffer is freed.
DropRelease(i) ==
    /\ rxs[i] = "flagged"
    /\ rxs' = [rxs EXCEPT ![i] = "gone"]
    /\ buf' = [buf EXCEPT ![i] = <<>>]
    /\ last' = <<"release", i, "none">>
    /\ UNCHANGED <<nreq, flag, txs, queue, consumer, param, uiPc, waiting,
                   panicked, got, prev, enqOrder>>
    /\ UNCHANGED <<backVars, ld>>

\* Mutant of FlagAfterRecv: a wait that times out cancels the request.
FlagAfterRecvCancels(i, out) ==
    IF out = "TimedOut" THEN [flag EXCEPT ![i] = TRUE] ELSE flag

\* try_recv and recv_timeout only forward to self.rx: whatever they return,
\* is_cancelled is as it was.
FlagAfterRecv(i, out) == flag

\* What a receive call does with its outcome: Ok takes the value off the channel.
Receive(i, out) ==
    IF out = "Ready"
      THEN /\ got' = [got EXCEPT ![i] = Append(@, Head(buf[i]))]
           /\ buf' = [buf EXCEPT ![i] = Tail(@)]
      ELSE UNCHANGED <<got, buf>>

\* LinkReceiver::try_recv.
TryRecv(i) ==
    /\ ~panicked
    /\ rxs[i] = "live"
    /\ i # waiting
    /\ i # ld.id
    /\ i = param => uiPc = "idle" /\ ld.pc = "idle"
    /\ flag' = FlagAfterRecv(i, ChannelTryRecv(buf[i], TxAlive(i)))
    /\ LET out == ChannelTryRecv(buf[i], TxAlive(i)) IN
         /\ Receive(i, out)
         /\ last' = <<"try_recv", i, out>>
    /\ UNCHANGED <<nreq, rxs, txs, queue, consumer, param, uiPc, waiting,
                   panicked, prev, enqOrder>>
    /\ UNCHANGED <<backVars, ld>>

\* LinkReceiver::recv_timeout is called: the caller blocks on the channel.
RecvTimeoutCall(i) ==
    /\ ~panicked
    /\ rxs[i] = "live"
    /\ waiting = 0
    /\ i # ld.id
    /\ i = param => uiPc = "idle"
    /\ waiting' = i
    /\ last' = <<"recv_timeout_call", i, "none">>
    /\ UNCHANGED <<nreq, flag, rxs, txs, buf, queue, consumer, param, uiPc,
                   panicked, got, prev, enqOrder>>
    /\ UNCHANGED <<backVars, ld>>

\* Mutant of RecvTimeoutWakes: the wait has no timer (rx.recv()).
RecvTimeoutWakesNoTimer(i) == buf[i] # <<>> \/ ~TxAlive(i)

\* When a blocked recv_timeout may return: a value or a disconnect wakes it,
\* and otherwise the duration runs out.
RecvTimeoutWakes(i) == TRUE

\* How the wait of request_load_file ended; a timeout is recorded with what
\* the consumer had done with the request by then.
LoadOutcome(i, out) ==
    IF out # "TimedOut" THEN out
    ELSE IF txs[i] = "queued" THEN "TimedOutQueued"
    ELSE "TimedOutStarted"

\* Mutant of AfterWait: a wait that did not produce a value returns with
\* the receiver kept.
AfterWaitKeepsReceiver(out) == IF out = "Ready" THEN "drop" ELSE "idle"

\* Where request_load_file stands after its wait (logic.rs 50-53): whatever
\* the outcome, the function ends and its local receiver is dropped.
AfterWait(out) == "drop"

\* LinkReceiver::recv_timeout returns.
RecvTimeoutReturn(i) ==
    /\ waiting = i
    /\ RecvTimeoutWakes(i)
    /\ waiting' = 0
    /\ flag' = FlagAfterRecv(i, ChannelRecvTimeout(buf[i], TxAlive(i)))
    /\ LET out == ChannelRecvTimeout(buf[i], TxAlive(i)) IN
         /\ Receive(i, out)
         /\ last' = <<"recv_timeout", i, out>>
         /\ ld' = IF i = ld.id THEN [ld EXCEPT !.pc = AfterWait(out), !.out = LoadOutcome(i, out)]
                  ELSE ld
    /\ UNCHANGED <<nreq, rxs, txs, queue, consumer, param, uiPc,
                   panicked, prev, enqOrder>>
    /\ UNCHANGED backVars

----------------------------------------------------------------------------
(* The backend consumer *)

\* Mutant of Dequeue: the next request is taken while run_on_backend of the
\* current one is still under way (a second consumer thread).
DequeueWhileRunning ==
    /\ consumer
    /\ queue # <<>>
    /\ cur' = Head(queue)
    /\ queue' = Tail(queue)
    /\ txs' = [txs EXCEPT ![Head(queue)] = "running"]
    /\ execOrder' = Append(execOrder, Head(queue))
    /\ pc' = "check1"
    /\ last' = <<"dequeue", Head(queue), "none">>
    /\ UNCHANGED <<flag, buf, consumer, result, state, acted, sends, sendOk,
                   read1, read2, enqOrder>>
    /\ UNCHANGED frontVars

\* The event loop takes the next boxed request off the queue and calls
\* run_on_backend on it.
Dequeue ==
    /\ consumer
    /\ pc = "idle"
    /\ queue # <<>>
    /\ cur' = Head(queue)
    /\ queue' = Tail(queue)
    /\ txs' = [txs EXCEPT ![Head(queue)] = "running"]
    /\ execOrder' = Append(execOrder, Head(queue))
    /\ pc' = "check1"
    /\ last' = <<"dequeue", Head(queue), "none">>
    /\ UNCHANGED <<flag, buf, consumer, result, state, acted, sends, sendOk,
                   read1, read2, enqOrder>>
    /\ UNCHANGED frontVars

\* Mutant of AfterCheck1: the early return is missing.
AfterCheck1NoReturn(c) == "action"

\* Mutant of AfterCheck1: the send comes before the action has run.
AfterCheck1SendsFirst(c) == IF c THEN "end" ELSE "send"

\* Where run_on_backend goes after its first load of is_cancelled.
AfterCheck1(c) == IF c THEN "end" ELSE "action"

\* run_on_backend, line 112: if !self.is_cancelled.load(SeqCst) .. else return.
Check1 ==
    /\ pc = "check1"
    /\ read1' = [read1 EXCEPT ![cur] = IF IsCancelled(cur) THEN "true" ELSE "false"]
    /\ pc' = AfterCheck1(IsCancelled(cur))
    /\ last' = <<"check1", cur, "none">>
    /\ UNCHANGED <<flag, txs, buf, queue, consumer, cur, result, state, acted,
                   sends, sendOk, read2, enqOrder, execOrder>>
    /\ UNCHANGED frontVars

\* run_on_backend, line 113: (self.action)(backend), the counter action.
Action ==
    /\ pc = "action"
    /\ state' = state + 1
    /\ result' = state + 1
    /\ acted' = [acted EXCEPT ![cur] = @ + 1]
    /\ pc' = "check2"
    /\ last' = <<"action", cur, "none">>
    /\ UNCHANGED <<flag, txs, buf, queue, consumer, cur, sends, sendOk, read1,
                   read2, enqOrder, execOrder>>
    /\ UNCHANGED frontVars

\* Mutant of AfterCheck2: the second check is missing.
AfterCheck2AlwaysSend(c) == "send"

\* Mutant of AfterCheck2: the negation of the second check is missing.
AfterCheck2Inverted(c) == IF c THEN "send" ELSE "end"

\* Where run_on_backend goes after its second load of is_cancelled.
AfterCheck2(c) == IF c THEN "end" ELSE "send"

\* run_on_backend, line 120: if !self.is_cancelled.load(SeqCst) { send }.
Check2 ==
    /\ pc = "check2"
    /\ read2' = [read2 EXCEPT ![cur] = IF IsCancelled(cur) THEN "true" ELSE "false"]
    /\ pc' = AfterCheck2(IsCancelled(cur))
    /\ last' = <<"check2", cur, "none">>
    /\ UNCHANGED <<flag, txs, buf, queue, consumer, cur, result, state, acted,
                   sends, sendOk, read1, enqOrder, execOrder>>
    /\ UNCHANGED frontVars

\* std::sync::mpsc::Sender::send succeeds until the receive end is released.
RxOpen(i) == rxs[i] \in {"live", "flagged"}

\* Mutant of SendReady: the result channel is a rendezvous channel
\* (sync_channel(0)): a send waits for the receiver to be receiving.
SendReadyRendezvous(i) == ~RxOpen(i) \/ waiting = i

\* channel() is the unbounded asynchronous channel: its send never waits for
\* the receiver.
SendReady(i) == TRUE

\* Mutant of AfterSend: the Err of send is unwrapped and the consumer thread
\* panics inside run_on_backend.
AfterSendUnwrap(ok) == IF ok THEN "end" ELSE "panicked"

\* Where run_on_backend goes after the send: `let _ = ..map_err(warn!)`
\* swallows an Err, so it returns either way.
AfterSend(ok) == "end"

\* run_on_backend, lines 121-126: self.backchannel.send(result), an Err only
\* logged.
Send ==
    /\ pc = "send"
    /\ SendReady(cur)
    /\ sends' = [sends EXCEPT ![cur] = @ + 1]
    /\ IF RxOpen(cur)
         THEN /\ buf' = [buf EXCEPT ![cur] = Append(@, result)]
              /\ sendOk' = [sendOk EXCEPT ![cur] = @ + 1]
              /\ last' = <<"send", cur, "ok">>
         ELSE /\ UNCHANGED <<buf, sendOk>>
              /\ last' = <<"send", cur, "closed">>
    /\ pc' = AfterSend(RxOpen(cur))
    /\ UNCHANGED <<flag, txs, queue, consumer, cur, result, state, acted,
                   read1, read2, enqOrder, execOrder>>
    /\ UNCHANGED frontVars

\* run_on_backend has returned; the event loop lets go of the boxed request,
\* which closes the send end of its result channel.
Finish ==
    /\ pc = "end"
    /\ txs' = [txs EXCEPT ![cur] = "dropped"]
    /\ pc' = "idle"
    /\ cur' = 0
    /\ result' = 0
    /\ last' = <<"finish", cur, "none">>
    /\ UNCHANGED <<flag, buf, queue, consumer, state, acted, sends, sendOk,
                   read1, read2, enqOrder, execOrder>>
    /\ UNCHANGED frontVars

\* The consumer goes away between two requests (the backend thread ends):
\* the queue's receive end closes and the requests still queued are destroyed.
HangUp ==
    /\ consumer
    /\ pc = "idle"
    /\ consumer' = FALSE
    /\ queue' = <<>>
    /\ txs' = [i \in Ids |-> IF txs[i] = "queued" THEN "dropped" ELSE txs[i]]
    /\ last' = <<"hang_up", 0, "none">>
    /\ UNCHANGED <<flag, buf, enqOrder>>
    /\ UNCHANGED backVars
    /\ UNCHANGED frontVars

----------------------------------------------------------------------------
Next ==
    \/ \E i \in Ids : New(i)
    \/ \E i \in Ids : Enqueue(i)
    \/ \E i \in Ids : EnqueuePanic(i)
    \/ \E i \in Ids : Rewire(i)
    \/ \E i \in Ids : LoadFile(i)
    \/ \E i \in Ids : LoadFilePanic(i)
    \/ \E i \in Ids : DropFlag(i)
    \/ \E i \in Ids : DropRelease(i)
    \/ \E i \in Ids : TryRecv(i)
    \/ \E i \in Ids : RecvTimeoutCall(i)
    \/ \E i \in Ids : RecvTimeoutReturn(i)
    \/ Dequeue
    \/ Check1
    \/ Action
    \/ Check2
    \/ Send
    \/ Finish
    \/ HangUp

Spec == Init /\ [][Next]_vars

\* The duration of a recv_timeout runs out: a caller that may return does.
FairSpec == Spec /\ WF_vars(\E i \in Ids : RecvTimeoutReturn(i))

\* The consumer's own steps.
BackendStep == Dequeue \/ Check1 \/ Action \/ Check2 \/ Send \/ Finish

\* request_load_file returns after its wait (logic.rs 53): the local
\* receiver goes out of scope.
LoadReturn == \E i \in Ids : i = ld.id /\ ld.pc = "drop" /\ DropFlag(i)

\* A fair backend loop and a frontend that keeps polling: the consumer thread
\* takes its next step whenever it has one, a blocked recv_timeout returns,
\* request_load_file returns after its wait, and every receiver that can be
\* polled is polled again.
FairBackendSpec ==
    /\ Spec
    /\ WF_vars(BackendStep)
    /\ WF_vars(\E i \in Ids : RecvTimeoutReturn(i))
    /\ WF_vars(LoadReturn)
    /\ \A i \in Ids : WF_vars(TryRecv(i))

----------------------------------------------------------------------------
(* Properties *)

IsPrefix(s, t) ==
    /\ Len(s) <= Len(t)
    /\ \A k \in 1..Len(s) : s[k] = t[k]

NoDuplicates(s) == \A k, l \in 1..Len(s) : s[k] = s[l] => k = l

RECURSIVE SumTo(_, _)
SumTo(f, n) == IF n = 0 THEN 0 ELSE f[n] + SumTo(f, n - 1)

\* How often any action ran against the backend state.
TotalActed == SumTo(acted, MaxReq)

\* The step just taken is operation op on pair i.
Did(op, i) == last[1] = op /\ last[2] = i

\* C1: the consumer calls run_on_backend on the requests in the order they
\* were enqueued, on none twice, and it passes over none: while the consumer
\* lives, the requests enqueued so far are exactly those run_on_backend was
\* called on, in order, followed by those still queued, in order.
C1_Fifo ==
    /\ IsPrefix(execOrder, enqOrder)
    /\ NoDuplicates(execOrder)
    /\ consumer => enqOrder = execOrder \o queue

\* C1 witness: two requests enqueued against their construction order have
\* both been run, in enqueue order.
C1_Witness == enqOrder = <<2, 1>> /\ execOrder = <<2, 1>> /\ pc = "idle"

\* C2: when the first load in run_on_backend reads the flag as true (the
\* receiver was dropped before the request began), run_on_backend returns at
\* once: that step leaves the backend state and the result channel alone,
\* and for such a request the action never runs and no send is attempted.
C2_PreCancel ==
    /\ [][\A i \in Ids :
            (pc = "check1" /\ cur = i /\ flag[i] /\ pc' # "check1")
              => /\ pc' = "end"
                 /\ state' = state
                 /\ buf' = buf
                 /\ read1'[i] = "true"]_vars
    /\ [](\A i \in Ids :
            read1[i] = "true"
              => acted[i] = 0 /\ sends[i] = 0 /\ read2[i] = "none")
    /\ [](state = TotalActed)

\* C2 witness: a request whose receiver was dropped before it began has been
\* run to its end, and the backend state is still untouched.
C2_Witness ==
    \E i \in Ids :
        /\ read1[i] = "true"
        /\ txs[i] = "dropped"
        /\ Did("finish", i)
        /\ state = 0
        /\ buf[i] = <<>>

\* C3 as claimed: no value is sent on the channel of a dropped receiver, in
\* any interleaving of the drop with the second check and the send.
C3_NoSendAfterDrop ==
    \A i \in Ids : sends[i] > 0 /\ Did("send", i) => rxs[i] = "live"

\* C3 as amended: a receiver dropped after its request's action started
\* keeps the mutation in the backend state (the state counts every action
\* that ran), a receiver never returns a value once its drop has begun, and
\* a send is attempted for it only if the second load read the flag as false,
\* that is only if the drop stored the flag after the second check.
C3_PostCancel ==
    /\ [](state = TotalActed)
    /\ [][\A i \in Ids : got'[i] # got[i] => rxs[i] = "live" /\ ~flag[i]]_vars
    /\ [](\A i \in Ids :
            /\ sends[i] > 0 => read2[i] = "false"
            /\ read2[i] = "true" => sends[i] = 0 /\ sendOk[i] = 0 /\ got[i] = <<>>)
    /\ [][\A i \in Ids :
            (pc = "check2" /\ cur = i /\ flag[i] /\ pc' # "check2")
              => pc' = "end" /\ state' = state /\ buf' = buf]_vars

\* C3 witness: the receiver was dropped while the action ran; the request has
\* ended, its mutation is in the backend state and nothing was sent.
C3_Witness ==
    \E i \in Ids :
        /\ acted[i] = 1
        /\ read2[i] = "true"
        /\ rxs[i] = "gone"
        /\ txs[i] = "dropped"
        /\ state >= 1
        /\ sends[i] = 0

\* C4: over a request's lifetime its action runs at most once, at most one
\* value is sent, a value is sent only if both loads read the flag as false,
\* and the receiver returns at most one value, one that was sent.
C4_AtMostOnce ==
    \A i \in Ids :
        /\ acted[i] <= 1
        /\ sends[i] <= 1
        /\ sendOk[i] <= sends[i]
        /\ sends[i] = 1 => read1[i] = "false" /\ read2[i] = "false" /\ acted[i] = 1
        /\ Len(got[i]) + Len(buf[i]) <= sendOk[i]
        /\ Len(got[i]) <= 1

\* C4 witness: a request ran, sent its one value, and the receiver took it.
C4_Witness ==
    \E i \in Ids :
        acted[i] = 1 /\ sends[i] = 1 /\ Len(got[i]) = 1 /\ txs[i] = "dropped"

\* C5: a pair's flag is false when the pair is constructed, and once it is
\* true no later state shows it false.
C5_FlagMonotonic ==
    /\ [][\A i \in Ids : (rxs[i] = "none" /\ rxs'[i] # "none") => ~flag'[i]]_vars
    /\ [][\A i \in Ids : flag[i] => flag'[i]]_vars
    /\ [](\A i \in Ids : rxs[i] = "none" => ~flag[i])

\* C5 witness: a flag set before its request was run is still set after the
\* request was dequeued, run and destroyed.
C5_Witness ==
    \E i \in Ids :
        flag[i] /\ rxs[i] = "gone" /\ read1[i] = "true" /\ txs[i] = "dropped"

\* The request has been constructed or enqueued, and not yet taken by the
\* consumer; its send end is alive.
Pending(i) == txs[i] \in {"built", "queued"}

\* C6: only the receiver's destruction changes a flag: every step that
\* changes flag[i] is the flag store of the drop of receiver i (by hand or
\* by set_recv); construction, enqueue, dequeue, run_on_backend, try_recv and
\* recv_timeout leave every flag alone, and right after a recv_timeout
\* returned Timeout the request is not cancelled, its receiver is live and
\* its send end alive.
C6_OnlyDropSetsFlag ==
    /\ [][\A i \in Ids :
            flag'[i] # flag[i]
              => /\ rxs[i] = "live"
                 /\ rxs'[i] = "flagged"
                 /\ last'[1] \in {"drop", "set_recv"}]_vars
    /\ [](\A i \in Ids :
            (Did("recv_timeout", i) /\ last[3] = "TimedOut")
              => ~flag[i] /\ rxs[i] = "live" /\ TxAlive(i))

\* C6 witness: a wait on a request has just timed out while the consumer
\* holds that request before its first check; the flag is still false, so
\* the request goes on to run.
C6_Witness ==
    \E i \in Ids :
        /\ last = <<"recv_timeout", i, "TimedOut">>
        /\ cur = i
        /\ pc = "check1"
        /\ ~flag[i]

\* C7: try_recv on a receiver whose request is pending returns NotReady, in
\* one step that takes nothing and leaves no caller blocked.
C7_TryRecvPending ==
    [][\A i \in Ids :
          (Pending(i) /\ last'[1] = "try_recv" /\ last'[2] = i)
            => last'[3] = "NotReady" /\ got' = got /\ waiting' = waiting]_vars

\* C7 witness: try_recv on a freshly constructed receiver, before anything
\* was enqueued or run, returned NotReady.
C7_Witness ==
    \E i \in Ids :
        /\ last = <<"try_recv", i, "NotReady">>
        /\ txs[i] = "built"
        /\ enqOrder = <<>>
        /\ execOrder = <<>>

\* C8: try_recv returns Ready with the value if a sent value has not been
\* taken, NotReady if nothing has been sent and the send end is alive, and
\* Disconnected if the send end is gone and no sent value is left; it
\* returns Ready in no other case.
C8_TryRecvOutcomes ==
    [][\A i \in Ids :
          (last'[1] = "try_recv" /\ last'[2] = i)
            => /\ last'[3] \in {"Ready", "NotReady", "Disconnected"}
               /\ sendOk[i] > Len(got[i])
                    => last'[3] = "Ready" /\ Len(got'[i]) = Len(got[i]) + 1
               /\ (sendOk[i] = 0 /\ TxAlive(i)) => last'[3] = "NotReady"
               /\ (sendOk[i] = Len(got[i]) /\ ~TxAlive(i))
                    => last'[3] = "Disconnected"
               /\ last'[3] = "Ready" => sendOk[i] > Len(got[i])
               /\ last'[3] # "Ready" => got' = got]_vars

\* C8 witness: the consumer went away before the request ran; try_recv on
\* its receiver returned Disconnected.
C8_Witness ==
    \E i \in Ids :
        /\ last = <<"try_recv", i, "Disconnected">>
        /\ ~consumer
        /\ read1[i] = "none"
        /\ i \in {enqOrder[k] : k \in 1..Len(enqOrder)}

\* C9: a recv_timeout that returns while its request is still unprocessed
\* returns Timeout and takes nothing, and every recv_timeout returns: no
\* caller stays blocked forever, whatever the backend does or fails to do.
C9_RecvTimeoutReturns ==
    /\ [][\A i \in Ids :
            (waiting = i /\ waiting' # i /\ Pending(i))
              => last' = <<"recv_timeout", i, "TimedOut">> /\ got' = got]_vars
    /\ (waiting # 0) ~> (waiting = 0)

\* C9 witness: a wait on an enqueued request timed out with the consumer
\* alive and no request ever taken off the queue.
C9_Witness ==
    \E i \in Ids :
        /\ last = <<"recv_timeout", i, "TimedOut">>
        /\ txs[i] = "queued"
        /\ consumer
        /\ execOrder = <<>>

\* Receiver j was held by the UIParameter and has been replaced.
Superseded(j) == \E i \in Ids : prev[i] = j

\* C10: when the request that replaced receiver j is enqueued, j's flag is
\* already true and j is gone; a superseded request whose first check does
\* not predate the replacement reads the flag as true and never runs its
\* action or sends; and of the receivers the UIParameter ever held only the
\* one it holds now, the most recently issued, returns a value.
C10_Rewire ==
    /\ [](\A i \in Ids :
            (prev[i] # 0 /\ txs[i] \in {"queued", "running", "dropped"})
              => flag[prev[i]] /\ rxs[prev[i]] = "gone")
    /\ [](\A j \in Ids :
            (Superseded(j) /\ read1[j] # "false") => acted[j] = 0 /\ sends[j] = 0)
    /\ [][\A j \in Ids :
            (Superseded(j) /\ pc = "check1" /\ cur = j /\ pc' # "check1")
              => read1'[j] = "true" /\ pc' = "end"]_vars
    /\ [][\A j \in Ids :
            (got'[j] # got[j] /\ (j = param \/ Superseded(j)))
              => j = param /\ ~Superseded(j) /\ uiPc = "idle"]_vars

\* C10 witness: a request superseded before it started was run without its
\* action, and the request that replaced it delivered to the UIParameter.
C10_Witness ==
    \E i, j \in Ids :
        /\ prev[i] = j
        /\ read1[j] = "true"
        /\ acted[j] = 0
        /\ txs[j] = "dropped"
        /\ param = i
        /\ got[i] # <<>>

\* Request i was put on the queue.
Enqueued(i) == \E k \in 1..Len(enqOrder) : enqOrder[k] = i

\* C11: an enqueue with no live consumer panics: the step puts nothing on the
\* queue and marks the caller panicked; a panicked frontend issues nothing
\* more, and a request that died in such an enqueue is never run, never
\* sends and never yields a value.
C11_EnqueueFatal ==
    /\ [][\A i \in Ids :
            (~consumer /\ last'[1] = "enqueue" /\ last'[2] = i /\ last' # last)
              => /\ panicked'
                 /\ last'[3] = "panic"
                 /\ enqOrder' = enqOrder
                 /\ queue' = queue
                 /\ ~TxAlive(i)']_vars
    /\ [][panicked
            => panicked' /\ nreq' = nreq /\ enqOrder' = enqOrder /\ txs' = txs]_vars
    /\ [](\A i \in Ids :
            (txs[i] = "dropped" /\ ~Enqueued(i))
              => /\ panicked
                 /\ ~consumer
                 /\ read1[i] = "none"
                 /\ acted[i] = 0
                 /\ sends[i] = 0
                 /\ got[i] = <<>>)

\* C11 witness: the consumer has gone, an enqueue has just panicked, and the
\* request's receiver is still held by the unwinding caller.
C11_Witness ==
    \E i \in Ids :
        /\ last = <<"enqueue", i, "panic">>
        /\ panicked
        /\ txs[i] = "dropped"
        /\ rxs[i] = "live"

\* C12: a send that finds the receive end gone is absorbed: the step takes
\* run_on_backend to its return with the backend state, the queue and the
\* consumer as they were; the action's mutation stays in the state; and the
\* consumer, which is alive, can take its next step, so the requests that
\* follow in the queue are run.
C12_ClosedSendAbsorbed ==
    /\ [][(pc = "send" /\ ~RxOpen(cur) /\ pc' # "send")
            => /\ pc' = "end"
               /\ last' = <<"send", cur, "closed">>
               /\ state' = state
               /\ queue' = queue
               /\ consumer' = consumer
               /\ panicked' = panicked]_vars
    /\ [](\A i \in Ids :
            sends[i] > sendOk[i] => acted[i] = 1 /\ state = TotalActed)
    /\ [](pc \in {"idle", "check1", "action", "check2", "send", "end"})
    /\ []((last[1] = "send" /\ last[3] = "closed") => consumer /\ ENABLED Finish)
    /\ []((consumer /\ pc = "idle" /\ queue # <<>>) => ENABLED Dequeue)

\* C12 witness: the first request's send found its channel closed, and the
\* request enqueued after it has run its action on the same backend state.
C12_Witness ==
    \E j, k \in Ids :
        /\ execOrder = <<j, k>>
        /\ sends[j] = 1
        /\ sendOk[j] = 0
        /\ acted[j] = 1
        /\ acted[k] = 1
        /\ state = 2

\* No receiver has been dropped (flags only ever go from false to true).
NoneDropped == \A j \in Ids : ~flag[j]

\* The place of request i in the order of enqueueing.
Pos(i) == CHOOSE k \in 1..Len(enqOrder) : enqOrder[k] = i

\* Every enqueued request's receiver has yielded a value.
AllYield == \A i \in Ids : Enqueued(i) => got[i] # <<>>

\* C13: with the counter action and no receiver dropped, the value sent to
\* and yielded by the receiver of the i-th enqueued request is i; when the
\* live consumer has drained the queue the counter equals the number of
\* enqueued requests; and under a fair backend loop and a polling frontend
\* every enqueued request's receiver eventually yields (unless a receiver is
\* dropped or the consumer goes away).
C13_CounterScenario ==
    /\ [](NoneDropped
            => \A i \in Ids :
                 /\ got[i] # <<>> => Enqueued(i) /\ got[i] = <<Pos(i)>>
                 /\ buf[i] # <<>> => Enqueued(i) /\ buf[i] = <<Pos(i)>>)
    /\ []((NoneDropped /\ consumer /\ queue = <<>> /\ pc = "idle")
            => state = Len(enqOrder))
    /\ []<>(AllYield \/ ~NoneDropped \/ ~consumer)

\* C13 witness: two requests, enqueued against their construction order,
\* none dropped; the queue is drained, the counter is 2, and each receiver
\* yielded its place in the enqueue order.
C13_Witness ==
    /\ enqOrder = <<2, 1>>
    /\ NoneDropped
    /\ consumer
    /\ queue = <<>>
    /\ pc = "idle"
    /\ state = 2
    /\ got = [i \in Ids |-> IF i = 2 THEN <<1>> ELSE IF i = 1 THEN <<2>> ELSE <<>>]

\* The requests run_on_backend has been called on and has not returned from.
Running == {i \in Ids : txs[i] = "running"}

\* C14: at most one request is inside run_on_backend at any time, and it is
\* the consumer's current one; the consumer takes the next request only
\* after run_on_backend of the previous one has returned and the request was
\* let go; and the backend state changes only in the action step of the
\* current request, never in a frontend step.
C14_SerialExecution ==
    /\ [](Cardinality(Running) <= 1)
    /\ [](IF pc = "idle" THEN cur = 0 /\ Running = {} ELSE Running = {cur})
    /\ [][execOrder' # execOrder
            => /\ pc = "idle"
               /\ Running = {}
               /\ \A k \in 1..Len(execOrder) : txs[execOrder[k]] = "dropped"]_vars
    /\ [][state' # state
            => /\ pc = "action"
               /\ last' = <<"action", cur, "none">>
               /\ state' = state + 1
               /\ UNCHANGED frontVars]_vars

\* C14 witness: the consumer is about to run the action of the first request
\* while the second waits in the queue.
C14_Witness ==
    /\ pc = "action"
    /\ Len(execOrder) = 1
    /\ cur = execOrder[1]
    /\ Len(queue) = 1
    /\ txs[queue[1]] = "queued"

\* C15: the consumer is blocked only on an empty queue: whenever it is alive
\* and the queue is non-empty or a request is under way, one of its steps is
\* enabled; in particular the send is enabled whatever the receiver does,
\* polled or not, live, being dropped or gone.
C15_BackendNeverBlocked ==
    /\ (consumer /\ (queue # <<>> \/ pc # "idle")) => ENABLED BackendStep
    /\ pc = "send" => ENABLED Send
    /\ pc # "idle" => consumer

\* C15 witness: the consumer is at the send of a request whose receiver is
\* gone, with another request waiting in the queue.
C15_Witness ==
    /\ pc = "send"
    /\ rxs[cur] = "gone"
    /\ queue # <<>>

\* C16: a receiver's destruction stores the flag before it releases the
\* receive end: the release step starts from a state whose flag is already
\* true, and in every state a receive end that is being or has been released
\* has its flag true, while a live receiver's flag is false.
C16_FlagBeforeRelease ==
    /\ [](\A i \in Ids :
            /\ rxs[i] \in {"flagged", "gone"} => flag[i]
            /\ rxs[i] = "live" => ~flag[i])
    /\ [][\A i \in Ids :
            (rxs'[i] = "gone" /\ rxs[i] # "gone")
              => rxs[i] = "flagged" /\ flag[i] /\ flag'[i]]_vars

\* C16 witness: a drop has stored the flag and not yet released the receive
\* end, while the consumer stands at the send of that request: the channel
\* is still open and the flag already true.
C16_Witness ==
    \E i \in Ids :
        /\ rxs[i] = "flagged"
        /\ flag[i]
        /\ pc = "send"
        /\ cur = i

\* C17: delivery comes after execution: a value is on a result channel or
\* was yielded by a receiver only if the request's action has run, and the
\* value is one the backend state has reached; the step in which a receiver
\* yields starts from a state in which the action has already completed.
C17_DeliveryAfterExecution ==
    /\ [](\A i \in Ids :
            (buf[i] # <<>> \/ got[i] # <<>> \/ sends[i] > 0)
              => /\ acted[i] = 1
                 /\ read1[i] = "false"
                 /\ \A k \in 1..Len(got[i]) : got[i][k] \in 1..state
                 /\ \A k \in 1..Len(buf[i]) : buf[i][k] \in 1..state)
    /\ [][\A i \in Ids :
            got'[i] # got[i]
              => acted[i] = 1 /\ sendOk[i] = 1 /\ ~(cur = i /\ pc \in {"check1", "action", "check2", "send"})]_vars

\* C17 witness: the receiver yielded the value while run_on_backend of its
\* request had sent it and not yet returned.
C17_Witness ==
    \E i \in Ids :
        /\ got[i] = <<1>>
        /\ acted[i] = 1
        /\ state = 1
        /\ cur = i
        /\ pc = "end"

\* The place of request i in the order of run_on_backend calls.
ExecPos(i) == CHOOSE k \in 1..Len(execOrder) : execOrder[k] = i

\* The value the counter action of request i returned: the number of
\* actions that had run when it had.
ActionValue(i) ==
    Cardinality({k \in 1..ExecPos(i) : acted[execOrder[k]] >= 1})

\* C18: cancellation is per pair: a step changes at most one flag, that of
\* the receiver being dropped, and touches no other pair's channel; a live
\* receiver's flag is false, so its request passes the first check and runs;
\* and what is on a pair's channel or was yielded by its receiver is the one
\* value its own request's action returned and its own run sent.
C18_Isolation ==
    /\ [][\A i \in Ids :
            flag'[i] # flag[i]
              => /\ rxs[i] = "live" /\ rxs'[i] = "flagged"
                 /\ \A j \in Ids \ {i} : flag'[j] = flag[j]]_vars
    /\ [](\A j \in Ids : rxs[j] = "live" => ~flag[j])
    /\ [][(pc = "check1" /\ rxs[cur] = "live" /\ pc' # "check1")
            => pc' = "action" /\ read1'[cur] = "false"]_vars
    /\ [](\A i \in Ids :
            /\ Len(got[i]) + Len(buf[i]) <= sendOk[i]
            /\ \A k \in 1..Len(got[i]) : got[i][k] = ActionValue(i)
            /\ \A k \in 1..Len(buf[i]) : buf[i][k] = ActionValue(i))

\* C18 witness: the first request's receiver was dropped and the request was
\* run without its action; the second request ran and its receiver yielded
\* its own value.
C18_Witness ==
    \E i, j \in Ids :
        /\ execOrder = <<i, j>>
        /\ flag[i]
        /\ rxs[i] = "gone"
        /\ read1[i] = "true"
        /\ ~flag[j]
        /\ got[j] = <<1>>
        /\ got[i] = <<>>

\* C20: a send on a closed result channel happens only when the receiver was
\* dropped between the second check and the send: the step that finds the
\* channel closed belongs to a request whose two loads both read false and
\* whose flag is true by now; a request for which either load read true
\* (the drop came earlier) attempts no send at all.
C20_ClosedSendWindow ==
    /\ [][(pc = "send" /\ pc' # "send" /\ last'[3] = "closed")
            => /\ read1[cur] = "false"
               /\ read2[cur] = "false"
               /\ flag[cur]
               /\ rxs[cur] = "gone"]_vars
    /\ [](\A i \in Ids :
            /\ sends[i] > sendOk[i] => read2[i] = "false" /\ flag[i] /\ rxs[i] = "gone"
            /\ (read1[i] = "true" \/ read2[i] = "true") => sends[i] = 0)
    /\ [][\A i \in Ids :
            (pc = "check2" /\ cur = i /\ rxs[i] # "live" /\ pc' # "check2")
              => pc' = "end" /\ read2'[i] = "true"]_vars

\* C20 witness: the second load read false, the receiver was then dropped
\* and released, and the send has just found the channel closed.
C20_Witness ==
    \E i \in Ids :
        /\ last = <<"send", i, "closed">>
        /\ read2[i] = "false"
        /\ rxs[i] = "gone"
        /\ sendOk[i] = 0
        /\ pc = "end"

\* C19 as stated: once the wait of request_load_file has timed out while the
\* load request was still queued, the request's action is never run.
C19_TimedOutNeverRuns ==
    ld.out = "TimedOutQueued" => acted[ld.id] = 0

\* C19: request_load_file drops its receiver when it returns, whether the
\* wait produced a result or timed out: the drop is the only step left after
\* the wait, and a returned call has stored the flag and released the
\* receiver. The action of the load request is never run when the flag store
\* comes before the backend's first flag check, and it is run when the first
\* check read false, also after a wait that timed out with the request still
\* queued. A wait that timed out never receives the result.
C19_LoadFile ==
    /\ [](ld.pc = "drop" => rxs[ld.id] = "live" /\ waiting # ld.id /\ ENABLED DropFlag(ld.id))
    /\ [](ld.id # 0 /\ ld.pc = "idle" => flag[ld.id] /\ rxs[ld.id] # "live")
    /\ [][\A i \in Ids :
            (pc = "check1" /\ cur = i /\ i = ld.id /\ flag[i] /\ pc' # "check1")
              => pc' = "end" /\ read1'[i] = "true"]_vars
    /\ [](ld.id # 0 /\ read1[ld.id] = "true" => acted[ld.id] = 0 /\ sends[ld.id] = 0)
    /\ [](ld.id # 0 /\ acted[ld.id] = 1 => read1[ld.id] = "false" /\ state >= 1)
    /\ [](ld.out \in {"TimedOutQueued", "TimedOutStarted"} => got[ld.id] = <<>>)
    /\ [](ld.id # 0 => Len(got[ld.id]) <= 1)

\* The wait timed out with the load request still queued, the call returned,
\* and the backend then skipped the action at its first flag check.
C19_Witness ==
    /\ ld.out = "TimedOutQueued"
    /\ ld.pc = "idle"
    /\ read1[ld.id] = "true"
    /\ acted[ld.id] = 0
    /\ txs[ld.id] = "dropped"
    /\ rxs[ld.id] = "gone"

====
